---- MODULE Spec2Model ----
(***************************************************************************)
(* Model of the batch brush-event detector pipeline (pipeline.py):         *)
(*   - _highlight_expr / _make_visualization : the highlight expression    *)
(*   - _detect_brush_events                  : upload, readiness polling,  *)
(*                                             retry loop, delete, parsing *)
(*                                             and type validation         *)
(*   - _process_video                        : one job, stage by stage     *)
(*   - main                                  : thread pool and summary     *)
(* Three specifications share the variables: SpecHighlight (the pure       *)
(* expression builder), SpecDetect (one call of _detect_brush_events) and  *)
(* Spec (a whole batch; FairSpec adds the scheduler's fairness).           *)
(***************************************************************************)
EXTENDS Integers, Sequences, FiniteSets, TLC

\* ------------------------------------------------------------------ bounds
\* Largest frame index used in ranges and as the frame number n.
MaxFrame == 8
\* Largest time a remote files.get call may take (time-units).
MaxLatency == 1
\* Largest number of videos discovered in one batch.
MaxVideos == 2
\* Largest --workers value.
MaxWorkers == 2

\* ------------------------------------------------------- program constants
\* deadline = time.time() + 300
PollDeadline == 300
\* time.sleep(2)
PollInterval == 2
\* max_retries = 5
max_retries == 5
\* wait = 2 ** attempt * 5
BackoffBase == 5

VARIABLES
    \* --- _highlight_expr / _make_visualization
    hL, hR, hn, hexpr, hcolors, hpc,
    \* --- _detect_brush_events (one call)
    dpc, state, now, deadline, attempt, requests, sleeps, deletes, deleteOk,
    lastErr, resp, dout, dresult,
    \* --- main / _process_video (a batch)
    videos, workers, visualize, apiKey, mpc, exitCode, errors, collected,
    n_ok, pc, src_1fps, result, exc, files, resultJson

hvars == <<hL, hR, hn, hexpr, hcolors, hpc>>
dvars == <<dpc, state, now, deadline, attempt, requests, sleeps, deletes,
           deleteOk, lastErr, resp, dout, dresult>>
bvars == <<videos, workers, visualize, apiKey, mpc, exitCode, errors,
           collected, n_ok, pc, src_1fps, result, exc, files, resultJson>>
vars == <<hvars, dvars, bvars>>

\* ------------------------------------------------------------ JSON values
\* A parsed JSON value as Python sees it: kind is the Python type, v the
\* scalar (an integer code for a float, 1/0 for a bool), xs a list's items.
JNull == [kind |-> "null", v |-> 0, xs |-> <<>>]
JInt(i) == [kind |-> "int", v |-> i, xs |-> <<>>]
JBool(b) == [kind |-> "bool", v |-> IF b THEN 1 ELSE 0, xs |-> <<>>]
JFloat(tenths) == [kind |-> "float", v |-> tenths, xs |-> <<>>]
JStr(s) == [kind |-> "str", v |-> s, xs |-> <<>>]
JList(items) == [kind |-> "list", v |-> 0, xs |-> items]
\* A key that the object does not hold (dict.get returns its default).
JMissing == [kind |-> "missing", v |-> 0, xs |-> <<>>]

\* ------------------------------------------------- _highlight_expr (pure)
Digits == <<"0", "1", "2", "3", "4", "5", "6", "7", "8", "9">>

RECURSIVE NatStr(_)
\* Python's decimal rendering of a natural number, as an f-string prints it.
NatStr(i) ==
    IF i < 10 THEN Digits[i + 1] ELSE NatStr(i \div 10) \o Digits[(i % 10) + 1]

\* f"{x}" for an element of a range: an int prints in decimal, a bool (which
\* passes isinstance(v, int)) prints as True / False.
PyFormat(j) ==
    CASE j.kind = "int" -> IF j.v < 0 THEN "-" \o NatStr(-j.v) ELSE NatStr(j.v)
      [] j.kind = "bool" -> IF j.v = 1 THEN "True" ELSE "False"
      [] OTHER -> "?"

\* The numbers ffmpeg's expression evaluator is asked to read back here.
ExprNums == (0 - MaxFrame - 2) .. (MaxFrame + 2)
IsNumeral(s) == \E i \in ExprNums : PyFormat(JInt(i)) = s
NumeralValue(s) == CHOOSE i \in ExprNums : PyFormat(JInt(i)) = s

\* One term f"between(n\\,{r[0]}\\,{r[1]})" of the expression.
BetweenTerm(r) == [fn |-> "between", x |-> "n", lo |-> PyFormat(r.xs[1]),
                   hi |-> PyFormat(r.xs[2])]

\* A faulty builder: the R term is built from L_range's bounds.
HighlightExprLL(L_range, R_range) ==
    (IF L_range # JNull THEN <<BetweenTerm(L_range)>> ELSE <<>>)
    \o (IF R_range # JNull
        THEN <<BetweenTerm(IF L_range # JNull THEN L_range ELSE R_range)>>
        ELSE <<>>)

\* "+".join(parts) if parts else None: the expression is the sequence of its
\* "+"-joined terms, and the empty sequence stands for None.
_highlight_expr(L_range, R_range) ==
    (IF L_range # JNull THEN <<BetweenTerm(L_range)>> ELSE <<>>)
    \o (IF R_range # JNull THEN <<BetweenTerm(R_range)>> ELSE <<>>)

\* ffmpeg's evaluator: every argument of every term must be a number.
ExprWellFormed(expr) ==
    \A k \in 1 .. Len(expr) : IsNumeral(expr[k].lo) /\ IsNumeral(expr[k].hi)

\* ffmpeg's between(x, min, max): 1 if min <= x <= max, else 0.
Between(x, lo, hi) == IF lo <= x /\ x <= hi THEN 1 ELSE 0

RECURSIVE EvalExpr(_, _)
\* The value of term1 + term2 + ... on frame n.
EvalExpr(expr, n) ==
    IF expr = <<>> THEN 0
    ELSE Between(n, NumeralValue(Head(expr).lo), NumeralValue(Head(expr).hi))
         + EvalExpr(Tail(expr), n)

\* The label colours _make_visualization's filter draws on source frame n:
\* without an expression one white drawtext; otherwise a white drawtext
\* enabled by not(hi) and a red one enabled by hi (enabled iff non-zero).
LabelColors(hi, n) ==
    IF hi = <<>> THEN {"white"}
    ELSE (IF EvalExpr(hi, n) = 0 THEN {"white"} ELSE {})
         \cup (IF EvalExpr(hi, n) # 0 THEN {"red"} ELSE {})

\* The ranges and frame numbers the expression builder is tried on.
FrameVals == (0 - 1) .. MaxFrame
IntRanges == {JList(<<JInt(a), JInt(b)>>) : a \in FrameVals, b \in FrameVals}
OptRanges == {JNull} \cup IntRanges

HInit ==
    /\ hL \in OptRanges
    /\ hR \in OptRanges
    /\ hn \in (0 - 1) .. (MaxFrame + 1)
    /\ hexpr = <<>>
    /\ hcolors = {}
    /\ hpc = "build"

\* hi = _highlight_expr(L_range, R_range)
BuildHighlight ==
    /\ hpc = "build"
    /\ hexpr' = _highlight_expr(hL, hR)
    /\ hpc' = "render"
    /\ UNCHANGED <<hL, hR, hn, hcolors>>
    /\ UNCHANGED <<dvars, bvars>>

\* The filter graph of _make_visualization applied to source frame hn.
RenderFrame ==
    /\ hpc = "render"
    /\ hcolors' = LabelColors(hexpr, hn)
    /\ hpc' = "done"
    /\ UNCHANGED <<hL, hR, hn, hexpr>>
    /\ UNCHANGED <<dvars, bvars>>

\* --------------------------------------------------- _detect_brush_events
\* The readiness states a file handle may report.
AssetStates == {"PROCESSING", "ACTIVE", "FAILED"}

\* str(exc), as the set of the signatures the message contains.
ErrorStrs == {{"503"}, {"UNAVAILABLE"}, {"503", "UNAVAILABLE"}, {"429"},
              {"RESOURCE_EXHAUSTED"}, {"400"}, {"PERMISSION_DENIED"}, {}}
NoErr == {"-"}

\* is_retryable = "503" in err_str or "UNAVAILABLE" in err_str or ...
is_retryable(err_str) ==
    \/ "503" \in err_str
    \/ "UNAVAILABLE" \in err_str
    \/ "429" \in err_str
    \/ "RESOURCE_EXHAUSTED" \in err_str

\* A faulty retry test: the last attempt is retried as well.
ShouldRetryOffByOne(err_str, att) == is_retryable(err_str) /\ att < max_retries

\* A faulty retry test: every error is retried.
ShouldRetryAnyError(err_str, att) == att < max_retries - 1

\* if is_retryable and attempt < max_retries - 1: sleep and retry, else raise
ShouldRetry(err_str, att) == is_retryable(err_str) /\ att < max_retries - 1

\* A faulty backoff: linear instead of exponential.
BackoffLinear(att) == (att + 1) * BackoffBase

\* wait = 2 ** attempt * 5
BackoffWait(att) == (2 ^ att) * BackoffBase

\* resp.text: text that is not JSON, JSON that is not an object, or a JSON
\* object with its L, R and notes members (JMissing: no such key).
NonJsonBody == [json |-> "invalid", L |-> JMissing, R |-> JMissing, notes |-> JMissing]
NonObjectBody == [json |-> "array", L |-> JMissing, R |-> JMissing, notes |-> JMissing]
ObjectBody(l, r, n) == [json |-> "object", L |-> l, R |-> r, notes |-> n]
NoResp == [json |-> "none", L |-> JMissing, R |-> JMissing, notes |-> JMissing]

Pair(a, b) == JList(<<a, b>>)
LVals == {JMissing, JNull, Pair(JInt(1), JInt(2)), Pair(JInt(MaxFrame), JInt(1)),
          JList(<<JInt(1)>>), JList(<<JInt(1), JInt(2), JInt(3)>>), JInt(7),
          Pair(JBool(TRUE), JBool(FALSE)), Pair(JInt(1), JBool(TRUE)),
          Pair(JStr("1"), JStr("2")), Pair(JFloat(15), JInt(2)), JStr("1,2")}
RVals == {JNull, Pair(JInt(2), JInt(2)), JList(<<JInt(2)>>), Pair(JInt(0), JFloat(25))}
NVals == {JStr("ok"), JMissing, JNull, JInt(3)}
Responses ==
    {NonJsonBody, NonObjectBody}
    \cup {ObjectBody(l, JNull, JStr("ok")) : l \in LVals}
    \cup {ObjectBody(Pair(JInt(1), JInt(2)), r, JStr("ok")) : r \in RVals}
    \cup {ObjectBody(JNull, Pair(JInt(2), JInt(2)), n) : n \in NVals}

\* data.get(key, default)
DictGet(member, default) == IF member = JMissing THEN default ELSE member

\* isinstance(v, int): true of an int and, bool being a subclass of int, of
\* a bool.
IsInstanceInt(j) == j.kind \in {"int", "bool"}

\* The type validation's test of one side: None, or a list of length 2
\* whose items all pass isinstance(v, int).
SideAccepted(val) ==
    \/ val = JNull
    \/ /\ val.kind = "list"
       /\ Len(val.xs) = 2
       /\ \A k \in 1 .. Len(val.xs) : IsInstanceInt(val.xs[k])

\* str(x) of a notes value that is not text.
PyStr(j) ==
    CASE j.kind = "str" -> j.v
      [] j.kind = "null" -> "None"
      [] j.kind \in {"int", "bool"} -> PyFormat(j)
      [] OTHER -> "repr"

NoResult == [L |-> JMissing, R |-> JMissing, notes |-> JMissing]

\* A range put in start <= end order.
Ordered(val) ==
    IF val # JNull /\ val.xs[1].kind = "int" /\ val.xs[2].kind = "int"
       /\ val.xs[1].v > val.xs[2].v
    THEN JList(<<val.xs[2], val.xs[1]>>) ELSE val

\* A faulty return: the ranges are put in start <= end order.
AcceptedOrdered(l, r, n) ==
    [out |-> "returned",
     res |-> [L |-> Ordered(l), R |-> Ordered(r),
              notes |-> IF n.kind = "str" THEN n ELSE JStr(PyStr(n))]]

\* return result: L and R are the objects json.loads built, notes is text.
Accepted(l, r, n) ==
    [out |-> "returned",
     res |-> [L |-> l, R |-> r,
              notes |-> IF n.kind = "str" THEN n ELSE JStr(PyStr(n))]]

\* Lines 262-288: json.loads, the result dict, the type validation and the
\* coercion of notes.  out is "returned" or the exception raised.
ParseAndValidate(body) ==
    IF body.json = "invalid" THEN [out |-> "NonJson", res |-> NoResult]
    ELSE IF body.json # "object" THEN [out |-> "AttributeError", res |-> NoResult]
    ELSE LET l == DictGet(body.L, JNull)
             r == DictGet(body.R, JNull)
             n == DictGet(body.notes, JStr(""))
         IN  IF ~SideAccepted(l) \/ ~SideAccepted(r)
             THEN [out |-> "TypeError", res |-> NoResult]
             ELSE Accepted(l, r, n)

DInit ==
    /\ dpc = "upload"
    /\ state = "NONE"
    /\ now = 0
    /\ deadline = 0
    /\ attempt = 0
    /\ requests = 0
    /\ sleeps = <<>>
    /\ deletes = 0
    /\ deleteOk = TRUE
    /\ lastErr = NoErr
    /\ resp = NoResp
    /\ dout = "running"
    /\ dresult = NoResult

\* An exception leaves the function.
Raise(kind) == dpc' = "raised" /\ dout' = kind

\* uploaded = client.files.upload(file=video_path); deadline = time.time() + 300
Upload ==
    /\ dpc = "upload"
    /\ \/ /\ Raise("UploadError")
          /\ UNCHANGED <<state, deadline>>
       \/ /\ state' \in AssetStates
          /\ deadline' = now + PollDeadline
          /\ dpc' = "poll"
          /\ dout' = dout
    /\ UNCHANGED <<now, attempt, requests, sleeps, deletes, deleteOk, lastErr,
                   resp, dresult>>
    /\ UNCHANGED <<hvars, bvars>>

\* A faulty deadline test: the deadline is never found passed.
DeadlineNeverPassed(t, d) == FALSE

\* A faulty deadline test: the timeout is raised only 10 after the deadline.
DeadlinePassedLate(t, d) == t > d + 10

\* if time.time() > deadline
DeadlinePassed(t, d) == t > d

\* A faulty failure test: a failed asset is polled like a pending one.
AssetFailedIgnored(st) == FALSE

\* if uploaded.state.name == "FAILED"
AssetFailed(st) == st = "FAILED"

\* while uploaded.state.name != "ACTIVE": the two checks of the loop body
PollCheck ==
    /\ dpc = "poll"
    /\ IF state = "ACTIVE" THEN dpc' = "request" /\ dout' = dout
       ELSE IF AssetFailed(state) THEN Raise("ProcessingFailed")
       ELSE IF DeadlinePassed(now, deadline) THEN Raise("Timeout")
       ELSE dpc' = "poll_sleep" /\ dout' = dout
    /\ UNCHANGED <<state, now, deadline, attempt, requests, sleeps, deletes,
                   deleteOk, lastErr, resp, dresult>>
    /\ UNCHANGED <<hvars, bvars>>

\* time.sleep(2)
PollSleep ==
    /\ dpc = "poll_sleep"
    /\ now' = now + PollInterval
    /\ dpc' = "poll_get"
    /\ UNCHANGED <<state, deadline, attempt, requests, sleeps, deletes,
                   deleteOk, lastErr, resp, dout, dresult>>
    /\ UNCHANGED <<hvars, bvars>>

\* uploaded = client.files.get(name=uploaded.name)
PollGet ==
    /\ dpc = "poll_get"
    /\ \E lat \in 0 .. MaxLatency :
          /\ now' = now + lat
          /\ \/ Raise("GetError") /\ state' = state
             \/ state' \in AssetStates /\ dpc' = "poll" /\ dout' = dout
    /\ UNCHANGED <<deadline, attempt, requests, sleeps, deletes, deleteOk,
                   lastErr, resp, dresult>>
    /\ UNCHANGED <<hvars, bvars>>

\* One turn of for attempt in range(max_retries): the generate_content call,
\* and on an exception the choice between the backoff and the re-raise.
Request ==
    /\ dpc = "request"
    /\ attempt < max_retries
    /\ requests' = requests + 1
    /\ \/ /\ resp' \in Responses
          /\ lastErr' = NoErr
          /\ dpc' = "delete"
          /\ dout' = dout
       \/ /\ lastErr' \in ErrorStrs
          /\ resp' = resp
          /\ IF ShouldRetry(lastErr', attempt)
             THEN dpc' = "backoff" /\ dout' = dout
             ELSE Raise("ServiceError")
    /\ UNCHANGED <<state, now, deadline, attempt, sleeps, deletes, deleteOk,
                   dresult>>
    /\ UNCHANGED <<hvars, bvars>>

\* time.sleep(wait), then the loop's next attempt
Backoff ==
    /\ dpc = "backoff"
    /\ sleeps' = Append(sleeps, BackoffWait(attempt))
    /\ now' = now + BackoffWait(attempt)
    /\ attempt' = attempt + 1
    /\ dpc' = "request"
    /\ UNCHANGED <<state, deadline, requests, deletes, deleteOk, lastErr, resp,
                   dout, dresult>>
    /\ UNCHANGED <<hvars, bvars>>

\* A faulty handler: an error of the delete leaves the function.
AfterDeleteSurfaced(ok) == IF ok THEN "parse" ELSE "raised"

\* except Exception: pass: after the delete attempt, failed or not, detect
\* goes on to parse the response.
AfterDelete(ok) == "parse"

\* try: client.files.delete(name=uploaded.name) except Exception: pass
Delete ==
    /\ dpc = "delete"
    /\ deletes' = deletes + 1
    /\ deleteOk' \in BOOLEAN
    /\ dpc' = AfterDelete(deleteOk')
    /\ UNCHANGED <<state, now, deadline, attempt, requests, sleeps, lastErr,
                   resp, dout, dresult>>
    /\ UNCHANGED <<hvars, bvars>>

\* A faulty handler: a rejected response sends detect back to the request.
AfterRejectedRetry == "request"

\* raise RuntimeError / raise TypeError on a rejected response: the exception
\* leaves the function (the retry loop has ended).
AfterRejected == "raised"

\* json.loads(resp.text), validation, return result
ParseValidate ==
    /\ dpc = "parse"
    /\ LET p == ParseAndValidate(resp) IN
          /\ dresult' = p.res
          /\ dout' = p.out
          /\ dpc' = IF p.out = "returned" THEN "returned" ELSE AfterRejected
    /\ UNCHANGED <<state, now, deadline, attempt, requests, sleeps, deletes,
                   deleteOk, lastErr, resp>>
    /\ UNCHANGED <<hvars, bvars>>

\* ------------------------------------------------- main and _process_video
\* The video files an input directory may hold, in sorted order: a file is
\* its stem and its extension (Path.stem drops the last suffix).
Universe == << <<"a", "avi">>, <<"a", "mp4">>, <<"b", "mp4">> >>
Ids == 1 .. Len(Universe)
Stem(i) == Universe[i][1]
VideoName(i) == Universe[i][1] \o "." \o Universe[i][2]
Stems == {Stem(i) : i \in Ids}

\* The input directories tried: none, one video, two videos of one stem,
\* two of different stems, all three.
InputDirs == {d \in {{}, {1}, {1, 2}, {1, 3}, {1, 2, 3}} : Cardinality(d) <= MaxVideos}

\* out_sub / f"{stem}_1fps_tmp.mp4" and the other paths of lines 303-309.
SourcePath(i) == <<"in", VideoName(i)>>
Tmp1fps(i) == <<"out", Stem(i), Stem(i) \o "_1fps_tmp.mp4">>
LabeledMp4(i) == <<"out", Stem(i), Stem(i) \o "_labeled.mp4">>
VisMp4(i) == <<"out", Stem(i), Stem(i) \o "_vis.mp4">>
\* result.json of an output subdirectory is resultJson[stem].
OutSub(i) == <<"out", Stem(i)>>
ResultJsonPath(i) == <<"out", Stem(i), "result.json">>
\* The working directory and the four artifact paths of video i's job.
ArtifactPaths(i) == {OutSub(i), Tmp1fps(i), LabeledMp4(i), ResultJsonPath(i), VisMp4(i)}

\* Files an earlier, interrupted run may have left in the output root (tried
\* with the one-video directory).
StaleFiles == {Tmp1fps(1), LabeledMp4(1)}
NoFile == [exists |-> FALSE, video |-> "", L |-> JMissing, R |-> JMissing,
           notes |-> JMissing]
StaleJson == [exists |-> TRUE, video |-> "old", L |-> JNull, R |-> JNull,
              notes |-> JStr("old")]

\* What the service may answer for video i in a batch.
BatchBodies(i) == {ObjectBody(Pair(JInt(i), JInt(i + 1)), JNull, JInt(3)),
                   ObjectBody(JInt(7), JNull, JStr("ok"))}

\* A faulty job: Label and Visualize read the normalized intermediate even
\* on the fast path.
Src1fpsPathAlwaysTmp(i) == Tmp1fps(i)

\* src_1fps as a path: str(video_path) or str(tmp_1fps).
Src1fpsPath(i) == IF src_1fps[i] = "orig" THEN SourcePath(i) ELSE Tmp1fps(i)

\* json.dumps(result) after result["video"] = video_path.name
JsonOf(i, res) == [exists |-> TRUE, video |-> VideoName(i), L |-> res.L,
                   R |-> res.R, notes |-> res.notes]

BInit ==
    /\ videos \in InputDirs
    /\ workers \in 1 .. MaxWorkers
    /\ visualize \in BOOLEAN
    /\ apiKey \in BOOLEAN
    /\ mpc = "start"
    /\ exitCode = 0 - 1
    /\ errors = <<>>
    /\ collected = {}
    /\ n_ok = 0 - 1
    /\ pc = [i \in Ids |-> "none"]
    /\ src_1fps = [i \in Ids |-> "unset"]
    /\ result = [i \in Ids |-> NoResult]
    /\ exc = [i \in Ids |-> "none"]
    /\ \E stale \in (IF Cardinality(videos) = 1 THEN {{}, StaleFiles} ELSE {{}}) :
          /\ files = {SourcePath(i) : i \in videos} \cup stale
          /\ resultJson = [s \in Stems |->
                             IF stale # {} /\ s = Stem(1) THEN StaleJson ELSE NoFile]

\* main, lines 397-431: the start-up checks, then one future per video.
Startup ==
    /\ mpc = "start"
    /\ IF videos = {} \/ ~apiKey
       THEN mpc' = "exited" /\ exitCode' = 1 /\ pc' = pc
       ELSE /\ mpc' = "collect"
            /\ exitCode' = exitCode
            /\ pc' = [i \in Ids |-> IF i \in videos THEN "queued" ELSE "none"]
    /\ UNCHANGED <<videos, workers, visualize, apiKey, errors, collected, n_ok,
                   src_1fps, result, exc, files, resultJson>>
    /\ UNCHANGED <<hvars, dvars>>

\* The jobs a pool thread is running.
Running == {i \in videos : pc[i] \notin {"none", "queued", "done"}}

\* A faulty job: the exception is recorded but the job carries on with the
\* Persist stage instead of leaving the try block.
EnterFinallySwallowed(i, e) ==
    /\ exc' = [exc EXCEPT ![i] = e]
    /\ pc' = [pc EXCEPT ![i] = "persist"]
    /\ src_1fps' = src_1fps

\* A faulty job: an exception of detect is swallowed and the job carries on
\* with the Persist stage, with no result.
EnterFinallyDetectIgnored(i, e) ==
    IF e = "Detect"
    THEN /\ exc' = exc
         /\ pc' = [pc EXCEPT ![i] = "persist"]
         /\ src_1fps' = src_1fps
    ELSE /\ exc' = [exc EXCEPT ![i] = e]
         /\ pc' = [pc EXCEPT ![i] = "clean_tmp"]
         /\ src_1fps' = [src_1fps EXCEPT ![i] = "unset"]

\* Job i leaves the try block for the finally clause, with the exception e
\* pending ("none": no exception).  src_1fps is not read after the try block.
EnterFinally(i, e) ==
    /\ exc' = [exc EXCEPT ![i] = e]
    /\ pc' = [pc EXCEPT ![i] = "clean_tmp"]
    /\ src_1fps' = [src_1fps EXCEPT ![i] = "unset"]

\* A failed ffmpeg run may leave a partial output file behind.
FfmpegFailed(out) == files' \in {files, files \cup {out}}

\* A pool thread takes the oldest queued job; lines 302-324: ffprobe, then
\* the fast path or _make_1fps.
Normalize(i) ==
    /\ pc[i] = "queued"
    /\ \A j \in videos : pc[j] = "queued" => i <= j
    /\ Cardinality(Running) < workers
    /\ \/ /\ EnterFinally(i, "Normalize")
          /\ UNCHANGED files
       \/ /\ src_1fps' = [src_1fps EXCEPT ![i] = "orig"]
          /\ pc' = [pc EXCEPT ![i] = "label"]
          /\ UNCHANGED <<exc, files>>
       \/ /\ src_1fps' = [src_1fps EXCEPT ![i] = "tmp"]
          /\ files' = files \cup {Tmp1fps(i)}
          /\ pc' = [pc EXCEPT ![i] = "label"]
          /\ UNCHANGED exc
       \/ /\ EnterFinally(i, "Normalize")
          /\ FfmpegFailed(Tmp1fps(i))
    /\ UNCHANGED <<videos, workers, visualize, apiKey, mpc, exitCode, errors,
                   collected, n_ok, result, resultJson>>
    /\ UNCHANGED <<hvars, dvars>>

\* _make_labeled(src_1fps, labeled_mp4)
Label(i) ==
    /\ pc[i] = "label"
    /\ \/ /\ Src1fpsPath(i) \in files
          /\ files' = files \cup {LabeledMp4(i)}
          /\ pc' = [pc EXCEPT ![i] = "detect"]
          /\ UNCHANGED <<exc, src_1fps>>
       \/ /\ EnterFinally(i, "Label")
          /\ IF Src1fpsPath(i) \in files THEN FfmpegFailed(LabeledMp4(i))
             ELSE files' = files
    /\ UNCHANGED <<videos, workers, visualize, apiKey, mpc, exitCode, errors,
                   collected, n_ok, result, resultJson>>
    /\ UNCHANGED <<hvars, dvars>>

\* result = _detect_brush_events(str(labeled_mp4), ...): the upload needs the
\* labeled file; the call returns a validated result or raises.
Detect(i) ==
    /\ pc[i] = "detect"
    /\ \/ /\ EnterFinally(i, "Detect")
          /\ UNCHANGED result
       \/ /\ LabeledMp4(i) \in files
          /\ \E body \in BatchBodies(i) :
                LET p == ParseAndValidate(body) IN
                IF p.out = "returned"
                THEN /\ result' = [result EXCEPT ![i] = p.res]
                     /\ pc' = [pc EXCEPT ![i] = "persist"]
                     /\ UNCHANGED <<exc, src_1fps>>
                ELSE EnterFinally(i, "Detect") /\ UNCHANGED result
    /\ UNCHANGED <<videos, workers, visualize, apiKey, mpc, exitCode, errors,
                   collected, n_ok, files, resultJson>>
    /\ UNCHANGED <<hvars, dvars>>

\* What line 338 writes to result.json.
WrittenJson(i) == JsonOf(i, result[i])

\* result["video"] = video_path.name; result_json.write_text(...)
Persist(i) ==
    /\ pc[i] = "persist"
    /\ resultJson' = [resultJson EXCEPT ![Stem(i)] = WrittenJson(i)]
    /\ IF visualize
       THEN pc' = [pc EXCEPT ![i] = "visualize"] /\ UNCHANGED <<exc, src_1fps>>
       ELSE EnterFinally(i, "none")
    /\ UNCHANGED <<videos, workers, visualize, apiKey, mpc, exitCode, errors,
                   collected, n_ok, result, files>>
    /\ UNCHANGED <<hvars, dvars>>

\* if visualize: _make_visualization(src_1fps, vis_mp4, L, R, vis_fps)
Visualize(i) ==
    /\ pc[i] = "visualize"
    /\ \/ /\ Src1fpsPath(i) \in files
          /\ ExprWellFormed(_highlight_expr(result[i].L, result[i].R))
          /\ files' = files \cup {VisMp4(i)}
          /\ EnterFinally(i, "none")
       \/ /\ EnterFinally(i, "Visualize")
          /\ IF Src1fpsPath(i) \in files THEN FfmpegFailed(VisMp4(i))
             ELSE files' = files
    /\ UNCHANGED <<videos, workers, visualize, apiKey, mpc, exitCode, errors,
                   collected, n_ok, result, resultJson>>
    /\ UNCHANGED <<hvars, dvars>>

\* finally: if tmp_1fps.exists():
CheckTmp(i) ==
    /\ pc[i] = "clean_tmp"
    /\ pc' = [pc EXCEPT ![i] = IF Tmp1fps(i) \in files THEN "unlink_tmp"
                                ELSE "clean_labeled"]
    /\ UNCHANGED <<videos, workers, visualize, apiKey, mpc, exitCode, errors,
                   collected, n_ok, src_1fps, result, exc, files, resultJson>>
    /\ UNCHANGED <<hvars, dvars>>

\* path.unlink(): removes the file, or raises FileNotFoundError out of the
\* finally clause (the job ends with that exception).
Unlink(i, path, next) ==
    IF path \in files
    THEN /\ files' = files \ {path}
         /\ pc' = [pc EXCEPT ![i] = next]
         /\ UNCHANGED exc
    ELSE /\ files' = files
         /\ pc' = [pc EXCEPT ![i] = "done"]
         /\ exc' = [exc EXCEPT ![i] = "Cleanup"]

\* tmp_1fps.unlink()
UnlinkTmp(i) ==
    /\ pc[i] = "unlink_tmp"
    /\ Unlink(i, Tmp1fps(i), "clean_labeled")
    /\ UNCHANGED <<videos, workers, visualize, apiKey, mpc, exitCode, errors,
                   collected, n_ok, src_1fps, result, resultJson>>
    /\ UNCHANGED <<hvars, dvars>>

\* if labeled_mp4.exists():
CheckLabeled(i) ==
    /\ pc[i] = "clean_labeled"
    /\ pc' = [pc EXCEPT ![i] = IF LabeledMp4(i) \in files THEN "unlink_labeled"
                                ELSE "done"]
    /\ UNCHANGED <<videos, workers, visualize, apiKey, mpc, exitCode, errors,
                   collected, n_ok, src_1fps, result, exc, files, resultJson>>
    /\ UNCHANGED <<hvars, dvars>>

\* labeled_mp4.unlink()
UnlinkLabeled(i) ==
    /\ pc[i] = "unlink_labeled"
    /\ Unlink(i, LabeledMp4(i), "done")
    /\ UNCHANGED <<videos, workers, visualize, apiKey, mpc, exitCode, errors,
                   collected, n_ok, src_1fps, result, resultJson>>
    /\ UNCHANGED <<hvars, dvars>>

\* A faulty collector: the error entry of a failed job is dropped when an
\* entry is already in the list.
ErrorsAfterKeepFirst(i) ==
    IF exc[i] # "none" /\ errors = <<>>
    THEN Append(errors, [video |-> VideoName(i), exc |-> exc[i]]) ELSE errors

\* try: future.result() except Exception as exc: errors.append(msg)
ErrorsAfter(i) ==
    IF exc[i] # "none"
    THEN Append(errors, [video |-> VideoName(i), exc |-> exc[i]]) ELSE errors

\* A faulty collector: a job's exception is not caught and ends the loop.
MainAfterResultUncaught(i) == IF exc[i] # "none" THEN "crashed" ELSE "collect"

\* Where the main thread is after future.result(): except Exception catches
\* whatever the job raised, and the loop goes on.
MainAfterResult(i) == "collect"

\* One turn of for future in as_completed(future_to_video)
Collect(i) ==
    /\ mpc = "collect"
    /\ pc[i] = "done"
    /\ i \notin collected
    /\ collected' = collected \cup {i}
    /\ errors' = ErrorsAfter(i)
    /\ mpc' = MainAfterResult(i)
    /\ UNCHANGED <<videos, workers, visualize, apiKey, exitCode, n_ok, pc,
                   src_1fps, result, exc, files, resultJson>>
    /\ UNCHANGED <<hvars, dvars>>

\* A faulty exit: the process ends with 0 whatever the failure list holds.
ExitCodeAlwaysZero(errs) == 0

\* if errors: ... sys.exit(1); otherwise main returns and the process ends
\* with 0.
ExitCodeOf(errs) == IF errs # <<>> THEN 1 ELSE 0

\* Lines 441-449: the summary and the exit code.
Summary ==
    /\ mpc = "collect"
    /\ collected = videos
    /\ n_ok' = Cardinality(videos) - Len(errors)
    /\ exitCode' = ExitCodeOf(errors)
    /\ mpc' = "exited"
    /\ UNCHANGED <<videos, workers, visualize, apiKey, errors, collected, pc,
                   src_1fps, result, exc, files, resultJson>>
    /\ UNCHANGED <<hvars, dvars>>

\* One step of job i.
JobStep(i) ==
    \/ Normalize(i)
    \/ Label(i)
    \/ Detect(i)
    \/ Persist(i)
    \/ Visualize(i)
    \/ CheckTmp(i)
    \/ UnlinkTmp(i)
    \/ CheckLabeled(i)
    \/ UnlinkLabeled(i)

\* One step of the main thread.
MainStep ==
    \/ Startup
    \/ \E i \in Ids : Collect(i)
    \/ Summary

\* ---------------------------------------------------------- specifications
HIdle ==
    /\ hL = JNull /\ hR = JNull /\ hn = 0 /\ hexpr = <<>> /\ hcolors = {}
    /\ hpc = "idle"

DIdle ==
    /\ dpc = "idle" /\ state = "NONE" /\ now = 0 /\ deadline = 0 /\ attempt = 0
    /\ requests = 0 /\ sleeps = <<>> /\ deletes = 0 /\ deleteOk = TRUE
    /\ lastErr = NoErr /\ resp = NoResp /\ dout = "running" /\ dresult = NoResult

BIdle ==
    /\ videos = {} /\ workers = 1 /\ visualize = FALSE /\ apiKey = FALSE
    /\ mpc = "idle" /\ exitCode = 0 - 1 /\ errors = <<>> /\ collected = {}
    /\ n_ok = 0 - 1
    /\ pc = [i \in Ids |-> "none"]
    /\ src_1fps = [i \in Ids |-> "unset"]
    /\ result = [i \in Ids |-> NoResult]
    /\ exc = [i \in Ids |-> "none"]
    /\ files = {}
    /\ resultJson = [s \in Stems |-> NoFile]

\* A whole batch.
Init == BInit /\ HIdle /\ DIdle
Next ==
    \/ MainStep
    \/ \E i \in Ids : JobStep(i)
Spec == Init /\ [][Next]_vars

\* The batch under the scheduler's fairness: the main thread and every pool
\* thread that can take a step eventually takes one.
FairSpec ==
    /\ Spec
    /\ WF_vars(MainStep)
    /\ \A i \in Ids : WF_vars(JobStep(i))

\* One call of _detect_brush_events.
InitDetect == DInit /\ HIdle /\ BIdle
NextDetect ==
    \/ Upload
    \/ PollCheck
    \/ PollSleep
    \/ PollGet
    \/ Request
    \/ Backoff
    \/ Delete
    \/ ParseValidate
SpecDetect == InitDetect /\ [][NextDetect]_vars

\* One call of _detect_brush_events in which every statement, remote call and
\* sleep included, returns: the function takes its next step.
FairSpecDetect == SpecDetect /\ WF_vars(NextDetect)

\* The highlight expression on every pair of optional ranges and every frame.
InitHighlight == HInit /\ DIdle /\ BIdle
NextHighlight ==
    \/ BuildHighlight
    \/ RenderFrame
SpecHighlight == InitHighlight /\ [][NextHighlight]_vars

\* ------------------------------------------------------------------ claims
\* The jobs that ended with an exception.
FailedJobs == {i \in videos : pc[i] = "done" /\ exc[i] # "none"}
\* The summary has been printed.
SummaryPrinted == mpc = "exited" /\ n_ok >= 0
\* How many entries of the failure list name video i.
EntriesOf(i) == Cardinality({k \in 1 .. Len(errors) : errors[k].video = VideoName(i)})

\* C1: once the batch is dispatched, whatever subset of the jobs fails, every
\* discovered video's job is started and reaches its terminal state, every
\* outcome is collected and the summary is produced.
C1_EveryJobRunsAndSummaryProduced ==
    (mpc = "collect")
        ~> (SummaryPrinted /\ \A i \in videos : pc[i] = "done" /\ i \in collected)

\* C1 witness: a summary after a batch of two in which one job failed in
\* Detect and the other succeeded.
C1_Witness ==
    /\ SummaryPrinted
    /\ \E i, j \in videos : /\ exc[i] = "Detect" /\ exc[j] = "none"
                            /\ pc[i] = "done" /\ pc[j] = "done"
                            /\ resultJson[Stem(j)].exists

\* C2: at every moment the failure list holds exactly one entry, with the
\* job's own error, for each collected job that raised and none for any other
\* job; once the summary is printed every job is collected and the succeeded
\* count is the number of videos minus the number of failed jobs.
C2_SummaryMatchesOutcomes ==
    /\ \A i \in videos :
          EntriesOf(i) = IF i \in collected /\ exc[i] # "none" THEN 1 ELSE 0
    /\ \A k \in 1 .. Len(errors) :
          \E i \in videos : errors[k] = [video |-> VideoName(i), exc |-> exc[i]]
    /\ SummaryPrinted =>
          /\ collected = videos
          /\ Len(errors) = Cardinality(FailedJobs)
          /\ n_ok = Cardinality(videos) - Cardinality(FailedJobs)

\* C2 witness: two videos, exactly one failed: succeeded = 1 and one entry.
C2_Witness ==
    /\ SummaryPrinted
    /\ Cardinality(videos) = 2
    /\ Cardinality(FailedJobs) = 1
    /\ n_ok = 1
    /\ Len(errors) = 1

\* No two discovered videos share a stem (and so an output subdirectory).
UniqueStems == \A i, j \in videos : Stem(i) = Stem(j) => i = j

\* C3: once a job is in its terminal state, neither <stem>_1fps_tmp.mp4 nor
\* <stem>_labeled.mp4 of its video exists.
C3_NoIntermediateAfterTerminal ==
    \A i \in videos :
       pc[i] = "done" => Tmp1fps(i) \notin files /\ LabeledMp4(i) \notin files

\* C3 holds of every batch whose videos have pairwise different stems.
C3_HoldsForUniqueStems == UniqueStems => C3_NoIntermediateAfterTerminal

\* C4: with visualization requested, result.json holds the job's detection
\* result when Visualize starts, and after a job whose Visualize stage failed
\* has ended, result.json of its video exists and holds that result.
C4_ResultSurvivesVisualizeFailure ==
    \A i \in videos :
       /\ pc[i] = "visualize" => resultJson[Stem(i)] = JsonOf(i, result[i])
       /\ pc[i] = "done" /\ exc[i] = "Visualize" =>
             resultJson[Stem(i)] = JsonOf(i, result[i])

\* C4 holds of every batch whose videos have pairwise different stems.
C4_HoldsForUniqueStems == UniqueStems => C4_ResultSurvivesVisualizeFailure

\* C5: at batch end every video not in the failure list has a result.json
\* with its own file name and the L, R and notes its detect call returned.
C5_SucceededHaveOwnResult ==
    SummaryPrinted =>
       \A i \in videos :
          EntriesOf(i) = 0 => resultJson[Stem(i)] = JsonOf(i, result[i])

\* C5 holds of every batch whose videos have pairwise different stems.
C5_HoldsForUniqueStems == UniqueStems => C5_SucceededHaveOwnResult

\* An error message with a service-unavailable or rate-limited signature.
TransientSignature(e) ==
    e \cap {"503", "UNAVAILABLE", "429", "RESOURCE_EXHAUSTED"} # {}

RECURSIVE SumSeq(_)
SumSeq(q) == IF q = <<>> THEN 0 ELSE Head(q) + SumSeq(Tail(q))

\* C6: one call of detect issues at most 5 inference requests; a backoff
\* sleep is taken only after a transient error on one of attempts 1 to 4, one
\* sleep per failed attempt, each followed by one further request; a transient
\* error on attempt 5 ends detect with no further sleep and no further request.
C6_AtMostFiveAttempts ==
    /\ requests <= 5
    /\ Len(sleeps) <= 4
    /\ dpc = "backoff" =>
          TransientSignature(lastErr) /\ requests <= 4 /\ Len(sleeps) = requests - 1
    /\ dpc = "request" => Len(sleeps) = requests /\ requests <= 4
    /\ requests = 5 /\ lastErr # NoErr =>
          dpc = "raised" /\ dout = "ServiceError" /\ Len(sleeps) = 4

\* C6 witness: the 5th attempt failed with a transient error and detect
\* raised after 5 requests and 4 sleeps.
C6_Witness ==
    /\ dpc = "raised" /\ dout = "ServiceError"
    /\ TransientSignature(lastErr)
    /\ requests = 5
    /\ Len(sleeps) = 4

\* C7: when attempt k+1 is the first to succeed (0 <= k <= 4), the sleeps
\* taken are the first k of 5, 10, 20, 40, their sum is 5*(2^k - 1), and
\* detect does not fail with a service error: it returns the result unless
\* the response body itself is rejected.
C7_BackoffSchedule ==
    resp # NoResp =>
       LET k == requests - 1 IN
       /\ k \in 0 .. 4
       /\ sleeps = SubSeq(<<5, 10, 20, 40>>, 1, k)
       /\ SumSeq(sleeps) = 5 * (2 ^ k - 1)
       /\ now >= SumSeq(sleeps)
       /\ dpc \in {"delete", "parse", "returned", "raised"}
       /\ dpc = "raised" => dout \in {"NonJson", "AttributeError", "TypeError"}

\* C7 witness: three transient failures, success on attempt 4, detect
\* returned after sleeping 5 + 10 + 20 = 35.
C7_Witness ==
    /\ dpc = "returned" /\ dout = "returned"
    /\ requests = 4
    /\ sleeps = <<5, 10, 20>>
    /\ SumSeq(sleeps) = 35

\* C8: an error without a transient signature ends detect at once: no sleep
\* follows it and no further request is issued (every sleep taken belongs to
\* an earlier, transient, failure); on the first attempt, no sleep at all.
C8_NonTransientFailsAtOnce ==
    /\ dpc = "backoff" => TransientSignature(lastErr)
    /\ lastErr # NoErr /\ ~TransientSignature(lastErr) =>
          /\ dpc = "raised" /\ dout = "ServiceError"
          /\ Len(sleeps) = requests - 1
          /\ requests = 1 => sleeps = <<>>

\* C8 witness: a non-transient error on the first attempt, detect raised
\* with no sleep taken.
C8_Witness ==
    /\ lastErr = {"400"}
    /\ requests = 1
    /\ dpc = "raised" /\ dout = "ServiceError"
    /\ sleeps = <<>>

\* n lies in the closed interval of the present range r.
InRange(r, n) == r # JNull /\ r.xs[1].v <= n /\ n <= r.xs[2].v

\* C9: the frame is drawn highlighted iff n lies in the closed interval of
\* left (when present) or of right (when present); with both absent the
\* builder yields no expression and every frame is drawn non-highlighted.
C9_HighlightIffInRange ==
    /\ hpc # "build" /\ hL = JNull /\ hR = JNull => hexpr = <<>>
    /\ hpc = "done" =>
          /\ ("red" \in hcolors) <=> (InRange(hL, hn) \/ InRange(hR, hn))
          /\ ("white" \in hcolors) <=> ~(InRange(hL, hn) \/ InRange(hR, hn))

\* C9 witness: build((1,2),(8,8)) rendered on frame 8 is highlighted.
C9_Witness ==
    /\ hpc = "done"
    /\ hL = Pair(JInt(1), JInt(2))
    /\ hR = Pair(JInt(8), JInt(8))
    /\ hn = 8
    /\ hcolors = {"red"}

\* A side that is absent, null or an array of exactly two integers.
IntegerPairOrAbsent(val) ==
    \/ val \in {JMissing, JNull}
    \/ /\ val.kind = "list"
       /\ Len(val.xs) = 2
       /\ \A k \in 1 .. Len(val.xs) : val.xs[k].kind = "int"

\* C10: detect returns a result only for a response in which each of L and R
\* is absent, null or an array of exactly two integers; notes is returned as
\* text.
C10_OnlyIntegerPairsAccepted ==
    dpc = "returned" =>
       /\ IntegerPairOrAbsent(resp.L)
       /\ IntegerPairOrAbsent(resp.R)
       /\ dresult.notes.kind = "str"

\* C11: any two distinct discovered videos have disjoint working directories
\* and artifact paths, and so no job loses or has overwritten by another job
\* a file it wrote: the normalized intermediate stays until the job's own
\* cleanup, the labeled intermediate is there while Detect runs, and
\* result.json holds the job's own result while Visualize runs.
C11_JobsShareNoPath ==
    /\ \A i, j \in videos : i # j => ArtifactPaths(i) \cap ArtifactPaths(j) = {}
    /\ \A i \in videos :
          /\ pc[i] \in {"label", "detect", "persist", "visualize"}
                /\ src_1fps[i] = "tmp" => Tmp1fps(i) \in files
          /\ pc[i] = "detect" => LabeledMp4(i) \in files
          /\ pc[i] = "visualize" => resultJson[Stem(i)] = JsonOf(i, result[i])

\* C11 holds of every batch whose videos have pairwise different stems.
C11_HoldsForUniqueStems == UniqueStems => C11_JobsShareNoPath

\* The inference request has resolved: with a response, or with the fatal
\* failure that ends the retry loop.
RequestResolved == resp # NoResp \/ dout = "ServiceError"
\* detect has returned or raised.
DetectEnded == dpc \in {"returned", "raised"}

\* C12: at most one delete of the remote asset is ever attempted, none before
\* the inference request has resolved, and when detect ends after the request
\* resolved, with a response or with a fatal failure, exactly one was made.
C12_OneDeleteAfterRequestResolves ==
    /\ deletes <= 1
    /\ deletes = 1 => RequestResolved
    /\ DetectEnded /\ RequestResolved => deletes = 1

\* C12 holds of the executions in which the request resolved with a response.
C12_HoldsAfterResponse ==
    /\ deletes <= 1
    /\ deletes = 1 => resp # NoResp
    /\ DetectEnded /\ resp # NoResp => deletes = 1

\* The time waited for readiness since the upload, while polling and when
\* the polling loop has just been left.
PollWait == now - (deadline - PollDeadline)
\* The asset is neither ready nor failed.
Pending == state \notin {"ACTIVE", "FAILED"}

\* C13 as stated: no inference request is issued once the polling wait has
\* exceeded 300: when the loop is left for the first request the wait is at
\* most 300.
C13_NoRequestAfterPollDeadline ==
    dpc = "request" /\ requests = 0 => PollWait <= PollDeadline

\* C13 amended: the deadline is tested only by a poll that finds the asset
\* neither Active nor Failed: such a poll after more than 300 of waiting
\* ends detect with a timeout and no request, and a sleep of 2 is started
\* only after a wait of at most 300; an asset observed Active is used
\* whatever the wait, which is at most 300 + 2 + the duration of the last
\* readiness query.
C13_TimeoutWhenPendingPastDeadline ==
    /\ dpc \in {"poll_sleep", "poll_get"} => Pending
    /\ dpc = "poll_sleep" => PollWait <= PollDeadline
    /\ dout = "Timeout" =>
          dpc = "raised" /\ Pending /\ PollWait > PollDeadline /\ requests = 0
    /\ dpc = "request" /\ requests = 0 =>
          state = "ACTIVE" /\ PollWait <= PollDeadline + PollInterval + MaxLatency

\* C13 witness: detect raised the timeout after a pending poll later than
\* the deadline, with no request issued.
C13_Witness ==
    /\ dpc = "raised" /\ dout = "Timeout"
    /\ Pending
    /\ PollWait > PollDeadline
    /\ requests = 0

\* C14: a request is issued only with the asset observed Active; once a poll
\* has observed Failed, detect is at the loop's test or has raised the
\* processing-failed error, and from then on no sleep is taken, no further
\* readiness query is made and no inference request is issued.
C14_RequestOnlyWhenActive ==
    /\ [](/\ dpc \in {"request", "backoff", "delete", "parse", "returned"} =>
               state = "ACTIVE"
          /\ requests > 0 => state = "ACTIVE"
          /\ dout = "ProcessingFailed" => dpc = "raised" /\ state = "FAILED"
          /\ state = "FAILED" =>
                /\ requests = 0 /\ sleeps = <<>>
                /\ dpc = "poll" \/ (dpc = "raised" /\ dout = "ProcessingFailed"))
    /\ [][state = "FAILED" =>
             /\ state' = "FAILED" /\ now' = now /\ requests' = 0
             /\ dpc' = "raised" /\ dout' = "ProcessingFailed"]_vars

\* C14 witness: a readiness query made after a sleep answered Failed and
\* detect raised the processing-failed error with no request issued.
C14_Witness ==
    /\ dpc = "raised" /\ dout = "ProcessingFailed"
    /\ state = "FAILED"
    /\ now >= PollInterval
    /\ requests = 0

\* Every discovered video's job has ended.
AllJobsDone == \A i \in videos : pc[i] = "done"

\* C15: the process has an exit code only once it has exited; it exits 0
\* only after the summary, with every discovered video's job ended without an
\* exception; when the jobs of a batch have all succeeded the exit code is 0;
\* and when some job has failed the process exits with 1, and only after all
\* jobs have ended, every failure is in the list and the summary is printed.
C15_ExitCodeReflectsJobs ==
    /\ exitCode = 0 - 1 <=> mpc # "exited"
    /\ exitCode = 0 => SummaryPrinted /\ AllJobsDone /\ FailedJobs = {}
    /\ mpc = "exited" /\ videos # {} /\ AllJobsDone /\ FailedJobs = {} =>
          exitCode = 0
    /\ mpc = "exited" /\ (\E i \in videos : exc[i] # "none") =>
          /\ exitCode = 1
          /\ AllJobsDone
          /\ collected = videos
          /\ Len(errors) = Cardinality(FailedJobs)
          /\ SummaryPrinted

\* C15 witness: a batch of two ended with exit code 1 after one job failed
\* in Label and the other succeeded.
C15_Witness ==
    /\ mpc = "exited" /\ exitCode = 1
    /\ Cardinality(videos) = 2
    /\ AllJobsDone
    /\ \E i, j \in videos : exc[i] = "Label" /\ exc[j] = "none"

\* The position of a job's stages in the order Normalize (queued), Label,
\* Detect, Persist, Visualize, Cleanup (its four steps), terminal.
StageRank(p) ==
    CASE p = "none" -> 0
      [] p = "queued" -> 1
      [] p = "label" -> 2
      [] p = "detect" -> 3
      [] p = "persist" -> 4
      [] p = "visualize" -> 5
      [] p = "clean_tmp" -> 6
      [] p = "unlink_tmp" -> 7
      [] p = "clean_labeled" -> 8
      [] p = "unlink_labeled" -> 9
      [] p = "done" -> 10
\* The stages before Cleanup, and the steps of Cleanup with the terminal state.
WorkStages == {"queued", "label", "detect", "persist", "visualize"}
CleanupStages == {"clean_tmp", "unlink_tmp", "clean_labeled", "unlink_labeled", "done"}

Rejections == {"NonJson", "AttributeError", "TypeError"}

\* C17: detect ends with a rejection only by raising, on the response of its
\* last request and with the outcome the parser gives that response; once a
\* response has arrived, whatever its body, no further request is issued and
\* no backoff sleep is taken; and a further request or a backoff sleep only
\* ever follows a request error with a transient signature.
C17_RejectedResponseNotRetried ==
    /\ [](/\ dout \in Rejections =>
               /\ dpc = "raised"
               /\ resp # NoResp /\ lastErr = NoErr
               /\ ParseAndValidate(resp).out = dout
               /\ Len(sleeps) = requests - 1
          /\ dpc = "backoff" => resp = NoResp /\ TransientSignature(lastErr))
    /\ [][/\ resp # NoResp => requests' = requests /\ sleeps' = sleeps
          /\ requests > 0 /\ (requests' # requests \/ sleeps' # sleeps) =>
                resp = NoResp /\ TransientSignature(lastErr)]_vars

\* C17 witness: after one transient error and one sleep, the second request
\* returned a body whose L fails the shape validation and detect raised
\* TypeError with 2 requests and 1 sleep.
C17_Witness ==
    /\ dpc = "raised" /\ dout = "TypeError"
    /\ ~SideAccepted(DictGet(resp.L, JNull))
    /\ requests = 2
    /\ sleeps = <<5>>

\* L or R of a response body as json.loads gives it: an absent member reads
\* as null.
Member(m) == IF m = JMissing THEN JNull ELSE m
\* Null, or an array of two integers in either order.
NullOrTwoIntegers(val) ==
    \/ val = JNull
    \/ val.kind = "list" /\ Len(val.xs) = 2
          /\ val.xs[1].kind = "int" /\ val.xs[2].kind = "int"

\* C18: when detect returns, the L and R of its result, and of the
\* result.json a job writes from it, are the L and R of the response, item
\* for item in the same order; and a response whose L and R are each null or
\* two integers, with start > end as well as start <= end, is not rejected.
C18_RangesReturnedUnchanged ==
    /\ dpc = "returned" =>
          /\ dresult.L = Member(resp.L)
          /\ dresult.R = Member(resp.R)
          /\ \A i \in Ids :
                /\ JsonOf(i, dresult).L = Member(resp.L)
                /\ JsonOf(i, dresult).R = Member(resp.R)
    /\ resp # NoResp /\ resp.json = "object"
          /\ NullOrTwoIntegers(Member(resp.L)) /\ NullOrTwoIntegers(Member(resp.R)) =>
          dout \notin Rejections

\* C18 witness: the response's L is the pair (MaxFrame, 1), start > end, and
\* detect returned it as it is.
C18_Witness ==
    /\ dpc = "returned"
    /\ resp.L = Pair(JInt(MaxFrame), JInt(1))
    /\ dresult.L = Pair(JInt(MaxFrame), JInt(1))
    /\ dresult.L.xs[1].v > dresult.L.xs[2].v

\* C19: a job whose source has a frame rate of 1 takes the fast path: the
\* step that chooses the source as the 1-rate asset runs no re-encode and
\* writes no file, and from then on the path Label and Visualize read is the
\* original source; and for every frame rate and every exit path the source
\* of every discovered video stays in place: no step of any job removes it.
C19_FastPathAndSourceKept ==
    /\ [](\A i \in videos :
             /\ SourcePath(i) \in files
             /\ src_1fps[i] = "orig" =>
                   /\ Src1fpsPath(i) = SourcePath(i)
                   /\ pc[i] \in {"label", "detect", "persist", "visualize"})
    /\ [][\A i \in videos :
             /\ src_1fps[i] # "orig" /\ src_1fps'[i] = "orig" =>
                   files' = files /\ pc[i] = "queued" /\ pc'[i] = "label"
             /\ SourcePath(i) \in files => SourcePath(i) \in files']_vars

\* C19 witness: a fast-path job is at Visualize, its Label and Detect done
\* and its result persisted, with no normalized intermediate in its
\* directory and the source in place.
C19_Witness ==
    \E i \in videos :
       /\ pc[i] = "visualize" /\ src_1fps[i] = "orig"
       /\ Tmp1fps(i) \notin files
       /\ SourcePath(i) \in files
       /\ resultJson[Stem(i)] = JsonOf(i, result[i])

\* C20: whether the delete attempt failed or not, detect goes on to parse
\* the response, and when it ends after a response its outcome and its result
\* are those the parser and the validation give that response alone; a
\* failed delete is never the error detect raises.
C20_DeleteFailureSwallowed ==
    /\ deletes = 1 => dpc \in {"parse", "returned", "raised"}
    /\ deletes = 1 /\ dpc = "raised" => dout \in Rejections
    /\ DetectEnded /\ resp # NoResp =>
          /\ dout = ParseAndValidate(resp).out
          /\ dresult = ParseAndValidate(resp).res
          /\ dpc = "returned" <=> dout = "returned"

\* C20 witness: the delete attempt failed and detect returned the result of
\* the response.
C20_Witness ==
    /\ deletes = 1 /\ ~deleteOk
    /\ dpc = "returned" /\ dout = "returned"
    /\ resp = ObjectBody(Pair(JInt(1), JInt(2)), Pair(JInt(2), JInt(2)), JStr("ok"))
    /\ dresult.L = Pair(JInt(1), JInt(2))
    /\ dresult.R = Pair(JInt(2), JInt(2))

\* The stages before Persist.
BeforePersist == {"Normalize", "Label", "Detect"}

\* C21: a job that failed in Normalize, Label or Detect has not written
\* result.json (the file of its directory does not carry its video's name),
\* and every step that creates or changes a result.json is the Persist step
\* of a job with no exception pending whose detect call returned a validated
\* result, writing that result to the job's own result.json and to no other.
C21_ResultWrittenOnlyAfterDetect ==
    /\ [](\A i \in videos :
             exc[i] \in BeforePersist =>
                resultJson[Stem(i)].video # VideoName(i))
    /\ [][resultJson' # resultJson =>
             \E i \in videos :
                /\ pc[i] = "persist" /\ pc'[i] # "persist"
                /\ exc[i] = "none"
                /\ result[i] # NoResult
                /\ SideAccepted(result[i].L) /\ SideAccepted(result[i].R)
                /\ resultJson' = [resultJson EXCEPT ![Stem(i)] = JsonOf(i, result[i])]]_vars

\* C21 witness: the one job of a batch failed in Detect and has ended, and
\* the result.json an earlier run left in its directory is as it was.
C21_Witness ==
    /\ videos = {1}
    /\ pc[1] = "done" /\ exc[1] = "Detect"
    /\ resultJson[Stem(1)] = StaleJson

\* detect is in the readiness loop.
Polling == dpc \in {"poll", "poll_sleep", "poll_get"}

\* C22: every call of detect ends, with a result or with an error.  The
\* readiness loop is bounded by time: a sleep is started only after a wait of
\* at most 300 and advances the clock by 2, the clock never goes back, and
\* the wait inside the loop never exceeds 300 + 2 + the duration of one
\* readiness query, so that at most 300 / 2 + 1 sleeps are taken; and at most
\* 5 inference requests are issued, one at a time.
C22_DetectTerminates ==
    /\ <>DetectEnded
    /\ [](/\ DetectEnded => dout # "running"
          /\ dpc = "poll_sleep" => PollWait <= PollDeadline
          /\ Polling => PollWait <= PollDeadline + PollInterval + MaxLatency
          /\ requests <= max_retries
          /\ attempt < max_retries)
    /\ [][/\ now' >= now
          /\ dpc = "poll_sleep" /\ dpc' # dpc => now' = now + PollInterval
          /\ requests' \in {requests, requests + 1}
          /\ DetectEnded => dpc' = dpc]_vars

\* C22 witness: the asset became Active only after a wait of more than 300,
\* all five inference attempts then failed transiently and detect raised.
C22_Witness ==
    /\ dpc = "raised" /\ dout = "ServiceError"
    /\ TransientSignature(lastErr)
    /\ requests = max_retries
    /\ now - SumSeq(sleeps) > PollDeadline

====
